---------------------------- MODULE Spec2Model ----------------------------
(***************************************************************************)
(* Model of the Warhammer 40K army builder (src/unnamed/part_000) and of   *)
(* the raw catalogue viewer (src/app.js).                                   *)
(*                                                                         *)
(* The state is the module-level state of the IIFE (armyList, favorites,   *)
(* CACHED_DATA), the parts of the DOM the handlers write (the containers,  *)
(* the points total, the tracker inputs), localStorage, and the network    *)
(* requests in flight.  Every event handler is one action: JavaScript runs *)
(* a handler to completion, and the continuation of an awaited fetch is a  *)
(* handler of its own.                                                     *)
(***************************************************************************)
EXTENDS Integers, Sequences, FiniteSets, TLC

(***************************************************************************)
(* Bounds of the model.                                                    *)
(***************************************************************************)
MaxRoster == 3      \* entries the roster may hold before add is disabled
MaxPending == 2     \* faction fetches in flight at once
MaxTimers == 1      \* pending status-clearing timers of the tracker
MaxBeside == 2      \* roster entries beside which SpecCatalogue runs its fetches

(***************************************************************************)
(* JavaScript values.  A value is a record with a kind k: a number (n), a  *)
(* string (s), NaN, null or undefined.                                     *)
(***************************************************************************)
Num(n) == [k |-> "num", n |-> n, s |-> ""]
Str(s) == [k |-> "str", n |-> 0, s |-> s]
NaN == [k |-> "NaN", n |-> 0, s |-> ""]
Null == [k |-> "null", n |-> 0, s |-> ""]
Undefined == [k |-> "undefined", n |-> 0, s |-> ""]

\* JavaScript's + on the numbers the reducer meets: NaN is absorbing, and
\* null converts to 0.
JsAdd(a, b) ==
    IF a.k = "NaN" \/ b.k = "NaN" \/ a.k = "undefined" \/ b.k = "undefined"
    THEN NaN
    ELSE Num((IF a.k = "num" THEN a.n ELSE 0) + (IF b.k = "num" THEN b.n ELSE 0))

(***************************************************************************)
(* Attribute strings that parseInt reads are sequences of characters.      *)
(***************************************************************************)
Digits == <<"0", "1", "2", "3", "4", "5", "6", "7", "8", "9">>

IsDigit(c) == \E i \in 1..10 : Digits[i] = c

DigitVal(c) == (CHOOSE i \in 1..10 : Digits[i] = c) - 1

IsSpace(c) == c = " "

RECURSIVE TrimLeft(_)
TrimLeft(cs) ==
    IF cs # <<>> /\ IsSpace(Head(cs)) THEN TrimLeft(Tail(cs)) ELSE cs

\* The value of the longest prefix of digits of cs, given the value acc of
\* the digits already read; -1 when no digit has been read at all.
RECURSIVE DigitPrefix(_, _)
DigitPrefix(cs, acc) ==
    IF cs # <<>> /\ IsDigit(Head(cs))
    THEN DigitPrefix(Tail(cs), (IF acc < 0 THEN 0 ELSE acc) * 10 + DigitVal(Head(cs)))
    ELSE acc

\* A data attribute read through dataset: its characters, or missing.
Attr(cs) == [present |-> TRUE, cs |-> cs]
Missing == [present |-> FALSE, cs |-> <<>>]

UndefinedChars == <<"u", "n", "d", "e", "f", "i", "n", "e", "d">>

\* parseInt(x, 10): a missing attribute reads as undefined and is converted
\* to the string "undefined"; leading blanks and one sign are skipped; the
\* longest prefix of digits is the value; no digit at all gives NaN.
parseInt(x) ==
    LET cs == TrimLeft(IF x.present THEN x.cs ELSE UndefinedChars)
        neg == cs # <<>> /\ Head(cs) = "-"
        body == IF cs # <<>> /\ Head(cs) \in {"-", "+"} THEN Tail(cs) ELSE cs
        v == DigitPrefix(body, -1)
    IN  IF v < 0 THEN NaN ELSE Num(IF neg THEN 0 - v ELSE v)

(***************************************************************************)
(* The catalogues the proxy serves.  A parsed document is the sequence of  *)
(* its selectionEntry[type="unit"] elements; cost is the value attribute   *)
(* of the entry's cost[name="Pts"] element, Missing when it has none.      *)
(***************************************************************************)
Files == {"a.cat", "b.cat"}

Catalogue(file) ==
    IF file = "a.cat"
    THEN << [id |-> "u1", name |-> "Intercessor Squad", cost |-> Attr(<<"1", "0", "0">>)],
            [id |-> "u2", name |-> "Cultist Mob", cost |-> Missing] >>
    ELSE << [id |-> "u3", name |-> "Redemptor Dreadnought", cost |-> Attr(<<"1", "8", "0">>)] >>

Ids == {"u1", "u2", "u3"}

\* What the network and the XML parser can do to one fetch.
Outcomes == {"ok", "network error", "http error", "parser error"}

RemoveAt(s, i) == SubSeq(s, 1, i - 1) \o SubSeq(s, i + 1, Len(s))

(***************************************************************************)
(* JSON.  A JSON text is modelled by its syntax tree: an object is the     *)
(* sequence of its members <<name, value>> in the order they are written,  *)
(* and a value is a string, a number or null.  A stored item is absent     *)
(* (getItem gives null), a text that is no JSON ("not json"), or a JSON    *)
(* text.                                                                   *)
(***************************************************************************)
Absent == [kind |-> "absent", json |-> <<>>]
NotJson == [kind |-> "not json", json |-> <<>>]
Json(members) == [kind |-> "json", json |-> members]

\* JSON.stringify of a property value: NaN is written as null.
StringifyValue(v) == IF v.k = "NaN" THEN Null ELSE v

\* JSON.stringify of an object with the properties names, in that order:
\* a property whose value is undefined is left out.
StringifyObject(obj, names) ==
    LET all == [i \in 1..Len(names) |-> <<names[i], StringifyValue(obj[names[i]])>>]
    IN  SelectSeq(all, LAMBDA m : m[2].k # "undefined")

\* Reading property name of a parsed object: undefined when the text has no
\* such member.
Property(members, name) ==
    IF \E i \in 1..Len(members) : members[i][1] = name
    THEN members[CHOOSE i \in 1..Len(members) : members[i][1] = name][2]
    ELSE Undefined

UnitNames == <<"id", "name", "points">>

\* JSON.stringify(favorites): the own properties in insertion order.
StringifyFavorites(fav) ==
    Json([i \in 1..Len(fav) |->
            <<fav[i].key, StringifyObject(fav[i].value, UnitNames)>>])

\* JSON.parse of a text written by StringifyFavorites.
ParseFavorites(members) ==
    [i \in 1..Len(members) |->
        [key |-> members[i][1],
         value |-> [id |-> Property(members[i][2], "id"),
                    name |-> Property(members[i][2], "name"),
                    points |-> Property(members[i][2], "points")]]]

CrusadeNames == <<"battleHonors", "xp", "rp">>

\* localStorage.setItem(key, value): the store with the item key set, added
\* when the store had no such item.
setItem(store, key, value) ==
    [k \in DOMAIN store \cup {key} |-> IF k = key THEN value ELSE store[k]]

(***************************************************************************)
(* The favorites object: its own properties in insertion order, each a     *)
(* key and the unit stored under it.                                       *)
(***************************************************************************)
HasKey(fav, key) == \E i \in 1..Len(fav) : fav[i].key = key

DeleteKey(fav, key) == SelectSeq(fav, LAMBDA e : e.key # key)

SetKey(fav, key, value) ==
    IF HasKey(fav, key)
    THEN [i \in 1..Len(fav) |-> IF fav[i].key = key THEN [key |-> key, value |-> value] ELSE fav[i]]
    ELSE Append(fav, [key |-> key, value |-> value])

\* `${v}` in a template literal.
ToText(v) == IF v.k = "str" THEN v.s ELSE v.k

(***************************************************************************)
(* State.                                                                  *)
(***************************************************************************)
VARIABLES
    armyList,            \* let armyList: the roster, a sequence of units
    favorites,           \* let favorites
    CACHED_DATA,         \* const CACHED_DATA
    localStorage,        \* the items "favorites" and "crusadeData"
    factionSelect,       \* #faction-select: its content and its value
    availableUnits,      \* #available-units
    armyListContainer,   \* #army-list
    pointsTotal,         \* #points-total (its text, as the value written)
    favoritesContainer,  \* #favorites-container
    activeTab,           \* the tab showTab made active
    crusadeInputs,       \* the values of the three tracker inputs
    crusadeStatus,       \* #crusade-status
    page,                \* "parsed": script run; "ready": DOMContentLoaded handled
    uncaught,            \* the function an exception escaped from, or "none"
    masterFetch,         \* the master catalogue fetch is in flight
    factionFetches,      \* per file, the faction fetches in flight
    timers,              \* status-clearing timeouts pending
    returned,            \* the value the last removeUnitFromArmy call returned
    previousSession,     \* history: favorites and the roster as the page unloaded
                         \* last left them, kept until this page's
                         \* DOMContentLoaded handler ran
    rawPage,             \* the raw viewer: "parsed", "fetching", "done"
    rawOutput            \* #raw-file-content

vars == << armyList, favorites, CACHED_DATA, localStorage, factionSelect,
           availableUnits, armyListContainer, pointsTotal, favoritesContainer,
           activeTab, crusadeInputs, crusadeStatus, page, uncaught, masterFetch,
           factionFetches, timers, returned, previousSession, rawPage, rawOutput >>

\* The parts of the page the script builds on each load.
pageVars == << armyList, favorites, CACHED_DATA, factionSelect, availableUnits,
               armyListContainer, pointsTotal, favoritesContainer, activeTab,
               crusadeInputs, crusadeStatus, page, uncaught, masterFetch,
               factionFetches, timers, returned >>

rosterVars == << armyList, armyListContainer, pointsTotal, returned >>
favVars == << favorites, favoritesContainer >>
fetchVars == << CACHED_DATA, factionSelect, availableUnits, masterFetch, factionFetches >>
crusadeVars == << crusadeInputs, crusadeStatus, timers >>
rawVars == << rawPage, rawOutput >>
NoPreviousSession == [unloaded |-> FALSE, favorites |-> <<>>, roster |-> <<>>]

(***************************************************************************)
(* A container of the page: the text it shows ("markup" is what the HTML   *)
(* file put there) and the cards in it.                                    *)
(***************************************************************************)
Container(text, cards) == [text |-> text, cards |-> cards]

Markup == [k |-> "markup", n |-> 0, s |-> ""]

NoFetches == [f \in Files |-> 0]

Pending == factionFetches["a.cat"] + factionFetches["b.cat"]

EmptyInputs == [battleHonors |-> "", xp |-> "", rp |-> ""]

\* The state of a page whose script has run and whose DOMContentLoaded
\* handler has not: the initial values of the script's variables, and the
\* document as the HTML file gives it.
Fresh ==
    [armyList |-> <<>>,
     favorites |-> <<>>,
     CACHED_DATA |-> [masterCatalogue |-> "unset", factionCatalogue |-> "unset"],
     factionSelect |-> [content |-> "markup", value |-> ""],
     availableUnits |-> Container("markup", <<>>),
     armyListContainer |-> Container("markup", <<>>),
     pointsTotal |-> Markup,
     favoritesContainer |-> Container("markup", <<>>),
     activeTab |-> "markup",
     crusadeInputs |-> EmptyInputs,
     crusadeStatus |-> "markup",
     page |-> "parsed",
     uncaught |-> "none",
     masterFetch |-> FALSE,
     factionFetches |-> NoFetches,
     timers |-> 0,
     returned |-> "no call"]

Init ==
    /\ armyList = Fresh.armyList
    /\ favorites = Fresh.favorites
    /\ CACHED_DATA = Fresh.CACHED_DATA
    /\ factionSelect = Fresh.factionSelect
    /\ availableUnits = Fresh.availableUnits
    /\ armyListContainer = Fresh.armyListContainer
    /\ pointsTotal = Fresh.pointsTotal
    /\ favoritesContainer = Fresh.favoritesContainer
    /\ activeTab = Fresh.activeTab
    /\ crusadeInputs = Fresh.crusadeInputs
    /\ crusadeStatus = Fresh.crusadeStatus
    /\ page = Fresh.page
    /\ uncaught = Fresh.uncaught
    /\ masterFetch = Fresh.masterFetch
    /\ factionFetches = Fresh.factionFetches
    /\ timers = Fresh.timers
    /\ returned = Fresh.returned
    /\ localStorage \in [favorites : {Absent, NotJson}, crusadeData : {Absent, NotJson}]
    /\ previousSession = NoPreviousSession
    /\ rawPage = "parsed"
    /\ rawOutput = "markup"

(***************************************************************************)
(* The functions of src/unnamed/part_000.                                  *)
(***************************************************************************)

\* fetchXML with the check of response.ok outside the try block.
fetchXMLThrowsOnStatus(file, outcome) ==
    IF outcome = "ok"
    THEN [isNull |-> FALSE, doc |-> Catalogue(file), escaped |-> FALSE]
    ELSE [isNull |-> TRUE, doc |-> <<>>, escaped |-> outcome = "http error"]

\* fetchXML: the document, or null after any failure; the try/catch lets no
\* exception out.
fetchXML(file, outcome) ==
    IF outcome = "ok"
    THEN [isNull |-> FALSE, doc |-> Catalogue(file), escaped |-> FALSE]
    ELSE [isNull |-> TRUE, doc |-> <<>>, escaped |-> FALSE]

\* renderUnitCard: the data attributes of the card of one unit element.
renderUnitCard(unit) ==
    [unitId |-> unit.id,
     unitName |-> Str(unit.name),
     unitPoints |-> IF unit.cost.present THEN unit.cost ELSE Attr(<<"N", "/", "A">>)]

\* updatePointsTotal: armyList.reduce((sum, unit) => sum + unit.points, 0).
RECURSIVE Reduce(_, _)
Reduce(list, sum) ==
    IF list = <<>> THEN sum ELSE Reduce(Tail(list), JsAdd(sum, Head(list).points))

updatePointsTotal(list) == Reduce(list, Num(0))

\* The card addUnitToArmy and renderArmyList write for one unit.
ArmyCard(unitId, unitName, points) ==
    [unitId |-> unitId, name |-> unitName, points |-> points]

\* renderArmyList: the placeholder for an empty list, else one card a unit.
renderArmyList(list) ==
    IF Len(list) = 0
    THEN Container("placeholder", <<>>)
    ELSE Container("", [i \in 1..Len(list) |->
                          ArmyCard(ToText(list[i].id), list[i].name, list[i].points)])

\* The index of the last match instead of the first.
findLastIndex(list, unitId) ==
    IF \E i \in 1..Len(list) : list[i].id = Str(unitId)
    THEN CHOOSE i \in 1..Len(list) :
            /\ list[i].id = Str(unitId)
            /\ \A j \in (i + 1)..Len(list) : list[j].id # Str(unitId)
    ELSE 0

\* armyList.findIndex(unit => unit.id === unitId), counted from 1; 0 when
\* no unit matches.
findIndex(list, unitId) ==
    IF \E i \in 1..Len(list) : list[i].id = Str(unitId)
    THEN CHOOSE i \in 1..Len(list) :
            /\ list[i].id = Str(unitId)
            /\ \A j \in 1..(i - 1) : list[j].id # Str(unitId)
    ELSE 0

\* loadFavorites without its try/catch.
loadFavoritesUnguarded(stored, fav) ==
    IF stored.kind = "absent"
    THEN [favorites |-> fav, escaped |-> FALSE]
    ELSE IF stored.kind = "not json"
         THEN [favorites |-> fav, escaped |-> TRUE]
         ELSE [favorites |-> ParseFavorites(stored.json), escaped |-> FALSE]

\* loadFavorites: the new value of favorites.
loadFavorites(stored, fav) ==
    IF stored.kind = "absent"
    THEN [favorites |-> fav, escaped |-> FALSE]
    ELSE IF stored.kind = "not json"
         THEN [favorites |-> <<>>, escaped |-> FALSE]
         ELSE [favorites |-> ParseFavorites(stored.json), escaped |-> FALSE]

\* saveFavorites: the item written under "favorites".
saveFavorites(fav) == StringifyFavorites(fav)

\* renderFavorites: a card for each value of favorites; the card carries
\* data-unit-id only.
renderFavorites(fav) ==
    IF Len(fav) = 0
    THEN Container("placeholder", <<>>)
    ELSE Container("", [i \in 1..Len(fav) |->
                          [unitId |-> ToText(fav[i].value.id),
                           unitName |-> Undefined,
                           unitPoints |-> Missing]])

\* x || '' of loadCrusadeData, on the string values the tracker stores.
OrEmpty(v) == IF v.k = "str" THEN v.s ELSE ""

\* loadCrusadeData: the new values of the inputs; JSON.parse is not guarded,
\* so a text that is no JSON throws out of the function.
loadCrusadeData(stored, inputs) ==
    IF stored.kind = "absent"
    THEN [inputs |-> inputs, escaped |-> FALSE]
    ELSE IF stored.kind = "not json"
         THEN [inputs |-> inputs, escaped |-> TRUE]
         ELSE [inputs |-> [battleHonors |-> OrEmpty(Property(stored.json, "battleHonors")),
                           xp |-> OrEmpty(Property(stored.json, "xp")),
                           rp |-> OrEmpty(Property(stored.json, "rp"))],
               escaped |-> FALSE]

\* The toggle of the click handler's favorite branch.
toggleFavorite(fav, unitId, unitName, unitPoints) ==
    IF HasKey(fav, unitId)
    THEN DeleteKey(fav, unitId)
    ELSE SetKey(fav, unitId,
                [id |-> Str(unitId), name |-> unitName, points |-> parseInt(unitPoints)])

(***************************************************************************)
(* Page load.                                                              *)
(***************************************************************************)

\* The DOMContentLoaded handler: populateFactionSelect up to its await,
\* loadFavorites, loadCrusadeData, showTab('battle-forge').  An exception
\* ends the handler where it is thrown.
DOMContentLoaded ==
    /\ page = "parsed"
    /\ page' = "ready"
    /\ factionSelect' = [factionSelect EXCEPT !.content = "loading"]
    /\ masterFetch' = TRUE
    /\ LET lf == loadFavorites(localStorage.favorites, favorites)
           lc == loadCrusadeData(localStorage.crusadeData, crusadeInputs)
       IN  IF lf.escaped
           THEN /\ uncaught' = "loadFavorites"
                /\ UNCHANGED << favorites, crusadeInputs, activeTab >>
           ELSE /\ favorites' = lf.favorites
                /\ IF lc.escaped
                   THEN /\ uncaught' = "loadCrusadeData"
                        /\ UNCHANGED << crusadeInputs, activeTab >>
                   ELSE /\ crusadeInputs' = lc.inputs
                        /\ activeTab' = "battle-forge"
                        /\ UNCHANGED uncaught
    /\ previousSession' = NoPreviousSession
    /\ UNCHANGED << armyList, armyListContainer, pointsTotal, returned,
                    favoritesContainer, CACHED_DATA, availableUnits,
                    factionFetches, crusadeStatus, timers, localStorage, rawVars >>

\* The user reloads the page: the script runs again on a fresh document,
\* requests and timers of the old page are gone, localStorage stays.
Reload ==
    /\ page = "ready"
    /\ previousSession' = [unloaded |-> TRUE, favorites |-> favorites, roster |-> armyList]
    /\ armyList' = Fresh.armyList
    /\ favorites' = Fresh.favorites
    /\ CACHED_DATA' = Fresh.CACHED_DATA
    /\ factionSelect' = Fresh.factionSelect
    /\ availableUnits' = Fresh.availableUnits
    /\ armyListContainer' = Fresh.armyListContainer
    /\ pointsTotal' = Fresh.pointsTotal
    /\ favoritesContainer' = Fresh.favoritesContainer
    /\ activeTab' = Fresh.activeTab
    /\ crusadeInputs' = Fresh.crusadeInputs
    /\ crusadeStatus' = Fresh.crusadeStatus
    /\ page' = Fresh.page
    /\ uncaught' = Fresh.uncaught
    /\ masterFetch' = Fresh.masterFetch
    /\ factionFetches' = Fresh.factionFetches
    /\ timers' = Fresh.timers
    /\ returned' = Fresh.returned
    /\ UNCHANGED << localStorage, rawVars >>

(***************************************************************************)
(* Catalogue fetches.                                                      *)
(***************************************************************************)

\* populateFactionSelect after its await.  An exception out of fetchXML
\* would reject the promise and end the function there.
MasterResolve(outcome) ==
    /\ masterFetch
    /\ masterFetch' = FALSE
    /\ LET r == fetchXML("Warhammer 40,000.gst", outcome)
       IN  IF r.escaped
           THEN /\ uncaught' = "fetchXML"
                /\ UNCHANGED << CACHED_DATA, factionSelect >>
           ELSE /\ UNCHANGED uncaught
                /\ IF ~r.isNull
                   THEN /\ CACHED_DATA' = [CACHED_DATA EXCEPT !.masterCatalogue = "document"]
                        /\ factionSelect' = [factionSelect EXCEPT !.content = "factions"]
                   ELSE /\ CACHED_DATA' = [CACHED_DATA EXCEPT !.masterCatalogue = "null"]
                        /\ factionSelect' = [factionSelect EXCEPT !.content = "error"]
    /\ UNCHANGED << rosterVars, favVars, availableUnits, factionFetches, crusadeVars,
                    localStorage, activeTab, page, previousSession, rawVars >>

BattleForgeShown == activeTab \in {"battle-forge", "markup"}

\* The change handler of the faction dropdown, up to its await.
FactionChange(file) ==
    /\ page = "ready"
    /\ BattleForgeShown
    /\ factionSelect.content = "factions"
    /\ factionSelect.value # file
    /\ Pending < MaxPending
    /\ factionSelect' = [factionSelect EXCEPT !.value = file]
    /\ availableUnits' = Container("loading", <<>>)
    /\ factionFetches' = [factionFetches EXCEPT ![file] = @ + 1]
    /\ UNCHANGED << rosterVars, favVars, CACHED_DATA, masterFetch, crusadeVars,
                    localStorage, activeTab, page, uncaught, previousSession, rawVars >>

\* What the change handler writes into #available-units after its await.
showUnits(result) ==
    IF ~result.isNull
    THEN Container("", [i \in 1..Len(result.doc) |-> renderUnitCard(result.doc[i])])
    ELSE Container("error", <<>>)

\* The change handler dropping the result of a fetch that is not the one of
\* the faction now selected.
FactionResolveLatestOnly(file, outcome) ==
    /\ factionFetches[file] > 0
    /\ factionFetches' = [factionFetches EXCEPT ![file] = @ - 1]
    /\ LET r == fetchXML(file, outcome)
       IN  IF file # factionSelect.value
           THEN UNCHANGED << availableUnits, CACHED_DATA >>
           ELSE /\ availableUnits' = showUnits(r)
                /\ CACHED_DATA' = IF ~r.isNull
                                  THEN [CACHED_DATA EXCEPT !.factionCatalogue = file]
                                  ELSE CACHED_DATA
    /\ UNCHANGED << rosterVars, favVars, factionSelect, masterFetch, crusadeVars,
                    localStorage, activeTab, page, uncaught, previousSession, rawVars >>

\* The change handler after its await: one of the fetches in flight ends.
FactionResolve(file, outcome) ==
    /\ factionFetches[file] > 0
    /\ factionFetches' = [factionFetches EXCEPT ![file] = @ - 1]
    /\ LET r == fetchXML(file, outcome)
       IN  IF r.escaped
           THEN /\ uncaught' = "fetchXML"
                /\ UNCHANGED << availableUnits, CACHED_DATA >>
           ELSE /\ UNCHANGED uncaught
                /\ availableUnits' = showUnits(r)
                /\ CACHED_DATA' = IF ~r.isNull
                                  THEN [CACHED_DATA EXCEPT !.factionCatalogue = file]
                                  ELSE CACHED_DATA
    /\ UNCHANGED << rosterVars, favVars, factionSelect, masterFetch, crusadeVars,
                    localStorage, activeTab, page, previousSession, rawVars >>

(***************************************************************************)
(* The document click handler and the functions it calls.                  *)
(***************************************************************************)

\* addUnitToArmy saving the roster under a key of its own.
addUnitToArmyPersisting(unitId, unitName, unitPoints) ==
    LET unit == [id |-> Str(unitId), name |-> unitName, points |-> parseInt(unitPoints)]
    IN  /\ armyList' = Append(armyList, unit)
        /\ armyListContainer' =
              [armyListContainer EXCEPT
                  !.cards = Append(@, ArmyCard(unitId, unitName, unit.points))]
        /\ pointsTotal' = updatePointsTotal(armyList')
        /\ localStorage' = setItem(localStorage, "armyList",
              Json([i \in 1..Len(armyList') |->
                      <<unitId, StringifyObject(armyList'[i], UnitNames)>>]))
        /\ UNCHANGED returned

\* addUnitToArmy: push the unit, append its card, update the total.  The
\* function calls no setItem.
addUnitToArmy(unitId, unitName, unitPoints) ==
    LET unit == [id |-> Str(unitId), name |-> unitName, points |-> parseInt(unitPoints)]
    IN  /\ armyList' = Append(armyList, unit)
        /\ armyListContainer' =
              [armyListContainer EXCEPT
                  !.cards = Append(@, ArmyCard(unitId, unitName, unit.points))]
        /\ pointsTotal' = updatePointsTotal(armyList')
        /\ UNCHANGED << returned, localStorage >>

\* A removal that leaves the total as it was.
removeKeepsTotal(unitId) ==
    LET index == findIndex(armyList, unitId)
    IN  /\ IF index > 0
           THEN /\ armyList' = RemoveAt(armyList, index)
                /\ armyListContainer' = renderArmyList(armyList')
                /\ UNCHANGED pointsTotal
           ELSE UNCHANGED << armyList, armyListContainer, pointsTotal >>
        /\ returned' = "undefined"
        /\ UNCHANGED localStorage

\* removeUnitFromArmy without its test of the index: splice(-1, 1) takes
\* the last entry out.
removeWithoutGuard(unitId) ==
    LET index == findIndex(armyList, unitId)
    IN  /\ armyList' = IF index > 0
                       THEN RemoveAt(armyList, index)
                       ELSE SubSeq(armyList, 1, Len(armyList) - 1)
        /\ armyListContainer' = renderArmyList(armyList')
        /\ pointsTotal' = updatePointsTotal(armyList')
        /\ returned' = "undefined"
        /\ UNCHANGED localStorage

\* removeUnitFromArmy: splice the first match out, render the list again
\* and update the total; nothing when no unit matches.  The function has
\* no return statement.
removeUnitFromArmy(unitId) ==
    LET index == findIndex(armyList, unitId)
    IN  /\ IF index > 0
           THEN /\ armyList' = RemoveAt(armyList, index)
                /\ armyListContainer' = renderArmyList(armyList')
                /\ pointsTotal' = updatePointsTotal(armyList')
           ELSE UNCHANGED << armyList, armyListContainer, pointsTotal >>
        /\ returned' = "undefined"
        /\ UNCHANGED localStorage

\* A click on the add-to-army button of card i of #available-units.
ClickAddToArmy(i) ==
    /\ page = "ready"
    /\ BattleForgeShown
    /\ i \in 1..Len(availableUnits.cards)
    /\ Len(armyList) < MaxRoster
    /\ LET unitCard == availableUnits.cards[i]
       IN  addUnitToArmy(unitCard.unitId, unitCard.unitName, unitCard.unitPoints)
    /\ UNCHANGED << favVars, fetchVars, crusadeVars, activeTab, page,
                    uncaught, previousSession, rawVars >>

\* A click on the remove button of card i of #army-list.
ClickRemoveFromArmy(i) ==
    /\ page = "ready"
    /\ BattleForgeShown
    /\ i \in 1..Len(armyListContainer.cards)
    /\ removeUnitFromArmy(armyListContainer.cards[i].unitId)
    /\ UNCHANGED << favVars, fetchVars, crusadeVars, activeTab, page,
                    uncaught, previousSession, rawVars >>

\* removeUnitFromArmy on any identifier, also one no unit of the roster has
\* (the click handler passes the identifiers of the cards on the page).
CallRemoveUnitFromArmy(unitId) ==
    /\ page = "ready"
    /\ removeUnitFromArmy(unitId)
    /\ UNCHANGED << favVars, fetchVars, crusadeVars, activeTab, page,
                    uncaught, previousSession, rawVars >>

\* The favorite branch saving only after an insertion.
favoriteBranchSavesInsertions(unitCard) ==
    /\ favorites' = toggleFavorite(favorites, unitCard.unitId, unitCard.unitName,
                                   unitCard.unitPoints)
    /\ localStorage' = IF HasKey(favorites, unitCard.unitId)
                       THEN localStorage
                       ELSE setItem(localStorage, "favorites", saveFavorites(favorites'))

\* The favorite branch of the click handler, for the button of unitCard:
\* toggle, then saveFavorites.
favoriteBranch(unitCard) ==
    /\ favorites' = toggleFavorite(favorites, unitCard.unitId, unitCard.unitName,
                                   unitCard.unitPoints)
    /\ localStorage' = setItem(localStorage, "favorites", saveFavorites(favorites'))

\* A click on the favorite button of card i of #available-units.
ClickFavoriteUnit(i) ==
    /\ page = "ready"
    /\ BattleForgeShown
    /\ i \in 1..Len(availableUnits.cards)
    /\ favoriteBranch(availableUnits.cards[i])
    /\ UNCHANGED << rosterVars, favoritesContainer, fetchVars, crusadeVars, activeTab,
                    page, uncaught, previousSession, rawVars >>

\* A click on the favorite button of card i of #favorites-container.
ClickFavoriteCard(i) ==
    /\ page = "ready"
    /\ activeTab = "favorites"
    /\ i \in 1..Len(favoritesContainer.cards)
    /\ favoriteBranch(favoritesContainer.cards[i])
    /\ UNCHANGED << rosterVars, favoritesContainer, fetchVars, crusadeVars, activeTab,
                    page, uncaught, previousSession, rawVars >>

(***************************************************************************)
(* Tabs.                                                                   *)
(***************************************************************************)
Tabs == {"battle-forge", "favorites", "crusade"}

\* showTab, from a click on a tab button (also the button of the tab that
\* is shown already: the Favorites tab then renders its cards again).
showTab(tabId) ==
    /\ activeTab' = tabId
    /\ favoritesContainer' =
          IF tabId = "favorites" THEN renderFavorites(favorites) ELSE favoritesContainer

ClickTab(tabId) ==
    /\ page = "ready"
    /\ showTab(tabId)
    /\ UNCHANGED << rosterVars, favorites, fetchVars, crusadeVars,
                    localStorage, page, uncaught, previousSession, rawVars >>

(***************************************************************************)
(* The Crusade tracker.                                                    *)
(***************************************************************************)
\* What the user may have typed into the three inputs.
TrackerEntries ==
    { EmptyInputs,
      [battleHonors |-> "", xp |-> "5", rp |-> ""],
      [battleHonors |-> "Slayer of Tyrants", xp |-> "5", rp |-> "2"] }

\* The user edits the inputs.
EditCrusadeInputs(values) ==
    /\ page = "ready"
    /\ activeTab = "crusade"
    /\ crusadeInputs # values
    /\ crusadeInputs' = values
    /\ UNCHANGED << rosterVars, favVars, fetchVars, crusadeStatus, timers,
                    localStorage, activeTab, page, uncaught, previousSession, rawVars >>

\* The click handler of #save-crusade.
SaveCrusade ==
    /\ page = "ready"
    /\ activeTab = "crusade"
    /\ timers < MaxTimers
    /\ localStorage' = setItem(localStorage, "crusadeData",
          Json([i \in 1..Len(CrusadeNames) |->
                  <<CrusadeNames[i], Str(crusadeInputs[CrusadeNames[i]])>>]))
    /\ crusadeStatus' = "Crusade progress saved!"
    /\ timers' = timers + 1
    /\ UNCHANGED << rosterVars, favVars, fetchVars, crusadeInputs, activeTab, page,
                    uncaught, previousSession, rawVars >>

\* The timeout the save handler set, three seconds later.
StatusTimeout ==
    /\ timers > 0
    /\ timers' = timers - 1
    /\ crusadeStatus' = ""
    /\ UNCHANGED << rosterVars, favVars, fetchVars, crusadeInputs, localStorage,
                    activeTab, page, uncaught, previousSession, rawVars >>

(***************************************************************************)
(* The raw catalogue viewer, src/app.js.                                   *)
(***************************************************************************)

\* fetchAndDisplayRawData: the text #raw-file-content ends with.  XML is
\* not parsed here, so a parser error is no failure of this fetch.
fetchAndDisplayRawData(outcome) ==
    IF outcome \in {"ok", "parser error"}
    THEN [text |-> "file", escaped |-> FALSE]
    ELSE [text |-> "Error: Failed to fetch data.", escaped |-> FALSE]

RawDOMContentLoaded ==
    /\ rawPage = "parsed"
    /\ rawPage' = "fetching"
    /\ UNCHANGED << rawOutput, pageVars, localStorage, previousSession >>

RawResolve(outcome) ==
    /\ rawPage = "fetching"
    /\ rawPage' = "done"
    /\ LET r == fetchAndDisplayRawData(outcome)
       IN  IF r.escaped
           THEN /\ uncaught' = "fetchAndDisplayRawData"
                /\ UNCHANGED rawOutput
           ELSE /\ UNCHANGED uncaught
                /\ rawOutput' = r.text
    /\ UNCHANGED << armyList, favorites, CACHED_DATA, factionSelect, availableUnits,
                    armyListContainer, pointsTotal, favoritesContainer, activeTab,
                    crusadeInputs, crusadeStatus, page, masterFetch, factionFetches,
                    timers, returned, localStorage, previousSession >>

(***************************************************************************)
(* Specifications.                                                         *)
(***************************************************************************)
Load ==
    \/ DOMContentLoaded
    \/ \E outcome \in Outcomes : MasterResolve(outcome)

Fetch ==
    \/ \E file \in Files : FactionChange(file)
    \/ \E file \in Files, outcome \in Outcomes : FactionResolve(file, outcome)

Roster ==
    \/ \E i \in 1..Len(availableUnits.cards) : ClickAddToArmy(i)
    \/ \E i \in 1..Len(armyListContainer.cards) : ClickRemoveFromArmy(i)
    \/ \E unitId \in Ids : CallRemoveUnitFromArmy(unitId)

Favorite ==
    \/ \E i \in 1..Len(availableUnits.cards) : ClickFavoriteUnit(i)
    \/ \E i \in 1..Len(favoritesContainer.cards) : ClickFavoriteCard(i)
    \/ \E tabId \in Tabs : ClickTab(tabId)

Crusade ==
    \/ \E values \in TrackerEntries : EditCrusadeInputs(values)
    \/ SaveCrusade
    \/ StatusTimeout

Raw ==
    \/ RawDOMContentLoaded
    \/ \E outcome \in Outcomes : RawResolve(outcome)

Next == Load \/ Fetch \/ Roster \/ Favorite \/ Crusade \/ Raw \/ Reload

\* Every handler of both scripts.
Spec == Init /\ [][Next]_vars

\* The army list: page load, catalogue fetches and the roster operations.
NextRoster == Load \/ Fetch \/ Roster

SpecRoster == Init /\ [][NextRoster]_vars

\* Favorites over several sessions.
NextFavorites == Load \/ Fetch \/ Favorite \/ Reload

SpecFavorites == Init /\ [][NextFavorites]_vars

\* Page loads over every content localStorage can have: the handlers that
\* write it (a favorite toggled in the unit list, the tracker saved), the
\* tabs, and reloads.
NextStartup ==
    \/ Load
    \/ Fetch
    \/ \E i \in 1..Len(availableUnits.cards) : ClickFavoriteUnit(i)
    \/ \E tabId \in Tabs : ClickTab(tabId)
    \/ Crusade
    \/ Reload

SpecStartup == Init /\ [][NextStartup]_vars

\* The catalogue fetches of both scripts, beside a small roster and
\* favorites toggled in the unit list.
NextCatalogue ==
    \/ Load
    \/ Fetch
    \/ Raw
    \/ \E i \in 1..Len(availableUnits.cards) :
          Len(armyList) < MaxBeside /\ ClickAddToArmy(i)
    \/ \E i \in 1..Len(availableUnits.cards) : ClickFavoriteUnit(i)

SpecCatalogue == Init /\ [][NextCatalogue]_vars

\* Sessions of a user who builds a small roster, marks favorites in the unit
\* list, saves the tracker and reloads; one faction is loaded at a time, and
\* the page is left before the timeout of a save clears the status line.
NextSession ==
    \/ Load
    \/ \E file \in Files : Pending = 0 /\ FactionChange(file)
    \/ \E file \in Files, outcome \in Outcomes : FactionResolve(file, outcome)
    \/ \E i \in 1..Len(availableUnits.cards) :
          Len(armyList) < MaxBeside /\ ClickAddToArmy(i)
    \/ \E i \in 1..Len(armyListContainer.cards) : ClickRemoveFromArmy(i)
    \/ \E i \in 1..Len(availableUnits.cards) : ClickFavoriteUnit(i)
    \/ \E tabId \in {"battle-forge", "crusade"} : ClickTab(tabId)
    \/ SaveCrusade
    \/ Reload

SpecSession == Init /\ [][NextSession]_vars

\* removeUnitFromArmy called with any identifier, beside a small roster and
\* favorites marked in the unit list; one faction is loaded at a time.
NextRemoval ==
    \/ Load
    \/ \E file \in Files : Pending = 0 /\ FactionChange(file)
    \/ \E file \in Files, outcome \in Outcomes : FactionResolve(file, outcome)
    \/ \E i \in 1..Len(availableUnits.cards) :
          Len(armyList) < MaxBeside /\ ClickAddToArmy(i)
    \/ \E i \in 1..Len(armyListContainer.cards) : ClickRemoveFromArmy(i)
    \/ \E unitId \in Ids : CallRemoveUnitFromArmy(unitId)
    \/ \E i \in 1..Len(availableUnits.cards) : ClickFavoriteUnit(i)

SpecRemoval == Init /\ [][NextRemoval]_vars

(***************************************************************************)
(* The points total and the roster.                                        *)
(***************************************************************************)
RECURSIVE SumOfFirst(_, _)
SumOfFirst(list, n) ==
    IF n = 0 THEN 0 ELSE SumOfFirst(list, n - 1) + list[n].points.n

AllPointsAreNumbers(list) == \A i \in 1..Len(list) : list[i].points.k = "num"

\* C1: once add or removeById has computed it, the total shown is the sum of
\* the points of exactly the entries now in the roster (0 for the empty
\* roster; NaN, as in JavaScript, when an entry's points are NaN), and it has
\* been computed whenever the roster is not empty.
C1_TotalIsSumOfRoster ==
    /\ armyList # <<>> => pointsTotal # Markup
    /\ pointsTotal # Markup =>
          IF AllPointsAreNumbers(armyList)
          THEN pointsTotal = Num(SumOfFirst(armyList, Len(armyList)))
          ELSE pointsTotal = NaN

\* The scenario of the specification after a removal: two units worth 100
\* and 180 are left in the roster and 280 is shown.
C1_Witness ==
    /\ returned = "undefined"
    /\ Len(armyList) = 2
    /\ pointsTotal = Num(280)

(***************************************************************************)
(* removeById.                                                             *)
(***************************************************************************)

\* A step that is a call removeUnitFromArmy(unitId), from a click on a
\* remove button or directly.
IsRemoveCall(unitId) ==
    \/ CallRemoveUnitFromArmy(unitId)
    \/ \E i \in 1..Len(armyListContainer.cards) :
          /\ armyListContainer.cards[i].unitId = unitId
          /\ ClickRemoveFromArmy(i)

Positions(list, unitId) == {i \in 1..Len(list) : list[i].id = Str(unitId)}

\* after is before without its entry at position k.
IsWithout(after, before, k) ==
    /\ Len(after) = Len(before) - 1
    /\ \A i \in 1..Len(after) : after[i] = before[IF i < k THEN i ELSE i + 1]

\* What removeById(unitId) does to the roster: with a match, exactly the
\* entry at the lowest matching position goes and the others keep their
\* order; with none, the roster stays.
RemovesFirstMatch(unitId) ==
    IF Positions(armyList, unitId) # {}
    THEN \E k \in Positions(armyList, unitId) :
            /\ \A j \in Positions(armyList, unitId) : k <= j
            /\ IsWithout(armyList', armyList, k)
    ELSE armyList' = armyList

\* C2 as stated: removeById removes the first match only, keeps the order of
\* the rest, and returns true when it removed an entry and false when no
\* entry had the id.
C2_RemoveReturnsWhetherRemoved ==
    [][\A unitId \in Ids :
          IsRemoveCall(unitId) =>
             /\ RemovesFirstMatch(unitId)
             /\ returned' = IF Positions(armyList, unitId) # {} THEN "true" ELSE "false"]_vars

\* C2 amended: removeById removes the first match only and keeps the order
\* of the rest; a call with an id no entry has (as the repeated call when no
\* duplicate remained) leaves the roster as it is; the call returns no value
\* (undefined) in either case.
C2_RemoveFirstMatchOnly ==
    [][\A unitId \in Ids :
          IsRemoveCall(unitId) =>
             /\ RemovesFirstMatch(unitId)
             /\ returned' = "undefined"]_vars

\* A removal has rendered the list again (the container's text is the one
\* renderArmyList writes for a roster that is not empty) and u2, u1 are in
\* the roster, as removeById("u1") leaves them of u1, u2, u1.
C2_Witness ==
    /\ returned = "undefined"
    /\ armyListContainer.text = ""
    /\ Len(armyList) = 2
    /\ armyList[1].id = Str("u2")
    /\ armyList[2].id = Str("u1")

(***************************************************************************)
(* Favorites.                                                              *)
(***************************************************************************)

\* The favorite buttons the user can click in this state, as the cards they
\* sit in: the unit list of the Battle Forge tab, or the Favorites tab.
ClickableFavoriteCards ==
    IF page # "ready"
    THEN {}
    ELSE IF activeTab = "favorites"
         THEN {favoritesContainer.cards[i] : i \in 1..Len(favoritesContainer.cards)}
         ELSE IF BattleForgeShown
              THEN {availableUnits.cards[i] : i \in 1..Len(availableUnits.cards)}
              ELSE {}

\* The favorite branch run for the button of unitCard: favorites after it.
Toggled(fav, unitCard) ==
    toggleFavorite(fav, unitCard.unitId, unitCard.unitName, unitCard.unitPoints)

\* Two favorites objects hold the same mapping: the same keys, each with
\* the same id, name and points, in whatever order.
SameMapping(f, g) == {f[i] : i \in 1..Len(f)} = {g[i] : i \in 1..Len(g)}

\* The mapping a stored item stands for: what loadFavorites makes of it on
\* a fresh page.
StoredMapping(stored) == loadFavorites(stored, <<>>).favorites

\* C3: two clicks in a row on the favorite button of a card leave favorites
\* the mapping it was before the first click, and the item stored under
\* "favorites" after the second click stands for the mapping the item
\* stored before the first one stood for.
C3_ToggleTwiceRestores ==
    \A unitCard \in ClickableFavoriteCards :
        LET twice == Toggled(Toggled(favorites, unitCard), unitCard)
        IN  /\ SameMapping(twice, favorites)
            /\ SameMapping(StoredMapping(saveFavorites(twice)),
                           StoredMapping(localStorage.favorites))

\* A step that is a click on the favorite button of unitCard.
IsFavoriteClick(unitCard) ==
    \/ \E i \in 1..Len(availableUnits.cards) :
          availableUnits.cards[i] = unitCard /\ ClickFavoriteUnit(i)
    \/ \E i \in 1..Len(favoritesContainer.cards) :
          favoritesContainer.cards[i] = unitCard /\ ClickFavoriteCard(i)

\* The units of all catalogues.
AllUnits == UNION {{Catalogue(file)[i] : i \in 1..Len(Catalogue(file))} : file \in Files}

\* The triple (id, name, points) of a catalogue unit, its points read as the
\* unit list shows them.
Triple(unit) ==
    [id |-> Str(unit.id),
     name |-> Str(unit.name),
     points |-> parseInt(renderUnitCard(unit).unitPoints)]

\* C4: a click on the favorite button of a unit's card removes the entry
\* keyed by the unit's id when favorites has one, and otherwise adds, under
\* that key, the triple (id, name, points) of the unit.
C4_ToggleInsertsTheUnit ==
    [][\A unitCard \in ClickableFavoriteCards :
          IsFavoriteClick(unitCard) =>
             IF HasKey(favorites, unitCard.unitId)
             THEN favorites' = SelectSeq(favorites, LAMBDA e : e.key # unitCard.unitId)
             ELSE \E unit \in AllUnits :
                     /\ unit.id = unitCard.unitId
                     /\ favorites' = Append(favorites,
                                            [key |-> unit.id, value |-> Triple(unit)])]_vars

\* C5: write-through.  Every click on a favorite button ends with the item
\* "favorites" being the serialization of all of favorites as it then is;
\* and on a loaded page, once the item is one a toggle wrote, it is the
\* serialization of favorites in every state between two events.
C5_WriteThrough ==
    /\ [][\A unitCard \in ClickableFavoriteCards :
             IsFavoriteClick(unitCard) =>
                localStorage'.favorites = StringifyFavorites(favorites')]_vars
    /\ [](page = "ready" /\ localStorage.favorites.kind = "json" =>
             localStorage.favorites = StringifyFavorites(favorites))

\* Two favorites are held and stored, after a toggle in this session (the
\* Favorites tab shows a card whose unit is no longer a favorite).
C5_Witness ==
    /\ page = "ready"
    /\ Len(favorites) = 2
    /\ Len(localStorage.favorites.json) = 2
    /\ \E i \in 1..Len(favoritesContainer.cards) :
          ~HasKey(favorites, favoritesContainer.cards[i].unitId)

\* C6: loadFavorites lets no exception out, and leaves favorites empty when
\* the item "favorites" is absent or is no JSON text.
C6_LoadFavoritesNeverThrows ==
    [][DOMContentLoaded =>
          /\ uncaught' # "loadFavorites"
          /\ localStorage.favorites.kind \in {"absent", "not json"} => favorites' = <<>>]_vars

\* The page has loaded over the item "not json".
C6_Witness ==
    /\ page = "ready"
    /\ localStorage.favorites = NotJson
    /\ favorites = <<>>

\* C8: round trip.  What loadFavorites builds on the next page load is the
\* mapping favorites was when the previous page was left: the same ids, and
\* for each id the same name and points.
C8_RoundTrip ==
    [][DOMContentLoaded /\ previousSession.unloaded =>
          SameMapping(favorites', previousSession.favorites)]_vars

(***************************************************************************)
(* Page load.                                                              *)
(***************************************************************************)

\* C7: whatever localStorage holds, the DOMContentLoaded handler runs all
\* its steps: no exception leaves it, favorites and the tracker inputs are
\* loaded, and the Battle Forge tab is shown.
C7_StartupCompletes ==
    [][DOMContentLoaded =>
          /\ uncaught' = "none"
          /\ SameMapping(favorites', StoredMapping(localStorage.favorites))
          /\ activeTab' = "battle-forge"]_vars

(***************************************************************************)
(* Catalogue fetches.                                                      *)
(***************************************************************************)
CardIds(cards) == [i \in 1..Len(cards) |-> cards[i].unitId]

UnitIds(file) == [i \in 1..Len(Catalogue(file)) |-> Catalogue(file)[i].id]

\* #available-units shows what the fetch of file that ended with outcome
\* gives: the cards of the file's units, or the error message.
ShowsResultOf(container, file, outcome) ==
    IF outcome = "ok"
    THEN container.text = "" /\ CardIds(container.cards) = UnitIds(file)
    ELSE container = Container("error", <<>>)

\* C9: a faction selection cancels no fetch in flight; every fetch that ends
\* renders its own result into #available-units, whatever has been selected
\* since; and nothing but a selection or the end of a fetch writes there.  So
\* the container finally shows the result of the fetch that ended last.
C9_EveryCompletionRenders ==
    [][/\ \A file \in Files :
             FactionChange(file) =>
                \A f \in Files : factionFetches'[f] >= factionFetches[f]
       /\ \A file \in Files, outcome \in Outcomes :
             FactionResolve(file, outcome) =>
                /\ ShowsResultOf(availableUnits', file, outcome)
                /\ \A f \in Files \ {file} : factionFetches'[f] = factionFetches[f]
       /\ availableUnits' # availableUnits =>
             \/ \E file \in Files : FactionChange(file)
             \/ \E file \in Files, outcome \in Outcomes : FactionResolve(file, outcome)]_vars

\* No fetch is in flight, b.cat is the faction selected, and the container
\* shows the units of a.cat: the earlier selection's fetch ended last.
C9_Witness ==
    /\ Pending = 0
    /\ factionSelect.value = "b.cat"
    /\ ShowsResultOf(availableUnits, "a.cat", "ok")

Failures == Outcomes \ {"ok"}

\* What a failed fetch leaves alone: no exception gets out, and the roster,
\* favorites and localStorage are as before.
FailureFrame ==
    /\ uncaught' = uncaught
    /\ armyList' = armyList
    /\ favorites' = favorites
    /\ localStorage' = localStorage

\* C10: a fetch that fails raises nothing; the faction handler shows the
\* error message in place of the unit list, populateFactionSelect the error
\* message in the dropdown, the raw viewer its error text; the roster,
\* favorites and localStorage stay as they are.  (The raw viewer parses no
\* XML: its failures are the network error and the HTTP error.)
C10_FailedFetchIsContained ==
    [][/\ factionFetches' # factionFetches =>
             \A file \in Files, outcome \in Failures :
                FactionResolve(file, outcome) =>
                   availableUnits' = Container("error", <<>>) /\ FailureFrame
       /\ masterFetch' # masterFetch =>
             \A outcome \in Failures :
                MasterResolve(outcome) =>
                   factionSelect'.content = "error" /\ FailureFrame
       /\ rawPage' # rawPage =>
             \A outcome \in {"network error", "http error"} :
                RawResolve(outcome) =>
                   rawOutput' = "Error: Failed to fetch data." /\ FailureFrame]_vars

\* A faction fetch and the raw viewer's fetch have failed beside a roster
\* and favorites that are not empty.
C10_Witness ==
    /\ availableUnits = Container("error", <<>>)
    /\ rawOutput = "Error: Failed to fetch data."
    /\ uncaught = "none"
    /\ armyList # <<>>
    /\ favorites # <<>>

(***************************************************************************)
(* The entries of the roster.                                              *)
(***************************************************************************)

\* C11: every entry of the roster has an id that is a non-empty string and
\* points that are a non-negative integer, also an entry added from a unit
\* whose card shows the "N/A" put in place of its missing cost.
C11_RosterEntriesValid ==
    \A i \in 1..Len(armyList) :
        /\ armyList[i].id.k = "str"
        /\ armyList[i].id.s # ""
        /\ armyList[i].points.k = "num"
        /\ armyList[i].points.n >= 0

(***************************************************************************)
(* removeById with an id no entry has.                                     *)
(***************************************************************************)

\* What a call that finds no entry leaves alone: the roster, the total
\* shown, favorites and localStorage.
AbsentIdFrame ==
    /\ armyList' = armyList
    /\ pointsTotal' = pointsTotal
    /\ favorites' = favorites
    /\ localStorage' = localStorage

\* C12 as stated: removeById with an id that no roster entry has changes
\* neither the roster, the points total, favorites nor the storage, and
\* returns false.
C12_AbsentIdReturnsFalse ==
    [][\A unitId \in Ids :
          IsRemoveCall(unitId) /\ Positions(armyList, unitId) = {} =>
             AbsentIdFrame /\ returned' = "false"]_vars

\* C12 amended: removeById with an id that no roster entry has changes
\* neither the roster, the points total, favorites nor the storage, nor the
\* army-list view, and returns no value (undefined).
C12_AbsentIdIsNoOp ==
    [][\A unitId \in Ids :
          IsRemoveCall(unitId) /\ Positions(armyList, unitId) = {} =>
             /\ AbsentIdFrame
             /\ armyListContainer' = armyListContainer
             /\ returned' = "undefined"]_vars

\* removeById has been called and no call of this session removed anything
\* (the view was never rendered again), with two entries in the roster and
\* a favorite held and stored.
C12_Witness ==
    /\ returned = "undefined"
    /\ armyListContainer.text = "markup"
    /\ Len(armyList) = 2
    /\ favorites # <<>>
    /\ localStorage.favorites = StringifyFavorites(favorites)

(***************************************************************************)
(* The roster and the storage.                                             *)
(***************************************************************************)

\* A step that is a call of addUnitToArmy, from a click on an add button.
IsAddCall == \E i \in 1..Len(availableUnits.cards) : ClickAddToArmy(i)

\* The items localStorage holds.
StoredKeys == {k \in DOMAIN localStorage : localStorage[k].kind # "absent"}

\* C13: the roster is never persisted.  The storage holds no item but
\* "favorites" and "crusadeData"; add and removeById leave the storage as it
\* is; and a page starts with an empty roster (when its script has run and
\* when its DOMContentLoaded handler has), whatever roster the page before
\* it was left with.
C13_RosterNeverPersisted ==
    /\ [](DOMAIN localStorage \subseteq {"favorites", "crusadeData"})
    /\ [](page = "parsed" => armyList = <<>>)
    /\ [][/\ (IsAddCall \/ (\E unitId \in Ids : IsRemoveCall(unitId))) =>
                localStorage' = localStorage
          /\ (DOMContentLoaded \/ Reload) => armyList' = <<>>]_vars

\* A page has just started after one that was left with a roster of two
\* entries; both items have been written, and the new page's roster is
\* empty.
C13_Witness ==
    /\ page = "parsed"
    /\ previousSession.unloaded
    /\ Len(previousSession.roster) = 2
    /\ StoredKeys = {"favorites", "crusadeData"}
    /\ localStorage.favorites # NotJson
    /\ localStorage.crusadeData # NotJson
    /\ armyList = <<>>

(***************************************************************************)
(* The army-list view.                                                     *)
(***************************************************************************)

\* C14: the army-list view agrees with the roster.  Its cards are the
\* entries of the roster (id, name and points) in their order, and the
\* placeholder text is there exactly when the roster is empty.  (What the
\* HTML file put into the container is not judged: the placeholder is
\* looked for once renderArmyList has written the container.)
C14_ViewMatchesRoster ==
    /\ Len(armyListContainer.cards) = Len(armyList)
    /\ \A i \in 1..Len(armyList) :
          armyListContainer.cards[i] =
             ArmyCard(ToText(armyList[i].id), armyList[i].name, armyList[i].points)
    /\ armyListContainer.text = "placeholder" => armyList = <<>>
    /\ armyList = <<>> /\ armyListContainer.text # "markup" =>
          armyListContainer.text = "placeholder"

==========================================================================
